---- MODULE Spec2Model ----
(***************************************************************************)
(* The glucose minimal model notebook (code/chap18.ipynb) as a state       *)
(* machine: the notebook's global namespace, the discrete simulator        *)
(* run_simulation with update_func, the continuous path run_ode_solver     *)
(* with slope_func, make_system / error_func, and the fit_leastsq call.    *)
(*                                                                         *)
(* Numbers: every number the notebook handles is an integer here, and a    *)
(* time is an exact rational <<numerator, denominator>> (linrange divides  *)
(* the span into n equal parts).  Floating-point rounding is not modelled. *)
(***************************************************************************)
EXTENDS Integers, Sequences, FiniteSets, TLC

\* ------------------------------------------------------------- bounds
MaxT == 4         \* largest time label a caller's System uses
MaxDt == 3        \* largest step size a caller's System uses
MaxEval == 2      \* leastsq's maxfev: evaluations before it gives up

\* ------------------------------------------------------- exact rationals
Abs(x) == IF x < 0 THEN -x ELSE x

RECURSIVE Gcd(_, _)
Gcd(a, b) == IF b = 0 THEN a ELSE Gcd(b, a % b)

\* the rational n/d (d # 0) in lowest terms with a positive denominator
Rat(n, d) ==
    LET g == Gcd(Abs(n), Abs(d))
        s == IF d < 0 THEN -1 ELSE 1
    IN  <<(s * n) \div g, (s * d) \div g>>

RatInt(k) == <<k, 1>>
RatAdd(a, b) == Rat(a[1] * b[2] + b[1] * a[2], a[2] * b[2])
RatLe(a, b) == a[1] * b[2] <= b[1] * a[2]
IsIntegral(a) == a[2] = 1

\* numpy.round of the quotient a/b (b # 0): to the nearest integer, a tie
\* to the even neighbour
RoundHalfEven(a, b) ==
    LET p == IF b < 0 THEN -a ELSE a
        q == Abs(b)
        f == p \div q
        r == p - f * q
    IN  IF 2 * r < q THEN f
        ELSE IF 2 * r > q THEN f + 1
        ELSE IF f % 2 = 0 THEN f ELSE f + 1

\* ------------------------------------------------------------ the data
\* data = pd.read_csv(...): a time index with a glucose and an insulin column
DataTables ==
    { [index |-> <<0, 2, 4>>, glucose |-> <<2, 4, 2>>, insulin |-> <<1, 3, 1>>],
      [index |-> <<0, 1, 3>>, glucose |-> <<1, 2, 2>>, insulin |-> <<2, 1, 3>>] }

get_first_label(d) == d.index[1]
get_last_label(d) == d.index[Len(d.index)]

\* interpolate(series): scipy's interp1d, linear, fill_value='extrapolate',
\* evaluated at an integer time t.  col is the column interpolated.
RECURSIVE Segment(_, _, _)
Segment(idx, t, j) ==
    IF j >= Len(idx) - 1 \/ t < idx[j + 1] THEN j ELSE Segment(idx, t, j + 1)

interpolate(d, col, t) ==
    LET j == Segment(d.index, t, 1)
        x0 == d.index[j]
        x1 == d.index[j + 1]
        y0 == d[col][j]
        y1 == d[col][j + 1]
    IN  y0 + ((t - x0) * (y1 - y0)) \div (x1 - x0)

\* the callables a System may carry as I: interpolations of a data column
Signals == {"insulin", "glucose"}

\* ------------------------------------------------------ Systems, States
State(G, X) == [G |-> G, X |-> X]

\* rate constants <<k1, k2, k3>> and initial states a caller may choose
Rates == {<<0, 0, 0>>, <<1, 1, 1>>}
Inits == {State(1, 0), State(2, 1)}

\* System(init=init, k1=k1, k2=k2, k3=k3, I=I, Gb=Gb, Ib=Ib,
\*        t_0=t_0, t_end=t_end, dt=dt), with Gb, Ib the data's first row
System(d, init, r, sig, t0, tend, step) ==
    [init |-> init, k1 |-> r[1], k2 |-> r[2], k3 |-> r[3],
     I |-> sig, Gb |-> d.glucose[1], Ib |-> d.insulin[1],
     t_0 |-> t0, t_end |-> tend, dt |-> step]

Without(s, names) == [x \in (DOMAIN s) \ names |-> s[x]]

\* the Systems a caller hands to run_simulation: every time span and step
\* (also reversed spans and steps <= 0), complete or with the step size left out
SimSystems(d) ==
    LET full == { System(d, State(2, 1), <<1, 1, 1>>, sig, t0, tend, step) :
                    sig \in Signals,
                    t0 \in 0..1, tend \in 0..MaxT, step \in -1..MaxDt }
    IN  full \cup { Without(s, {"dt"}) : s \in full }

\* the Systems a caller hands to run_ode_solver with t_eval=data.index: the
\* data's own time span, as in cells 7 and 8
OdeSystems(d) ==
    { System(d, init, r, sig, get_first_label(d), get_last_label(d), 2) :
        init \in Inits, r \in Rates, sig \in Signals }

\* unpack(system): the System's variables become globals of the notebook,
\* replacing any global of the same name and leaving the others as they were
unpack(system, g) == system @@ g

Defined(env, names) == names \subseteq DOMAIN env

\* linrange(start, stop, step) with endpoint=False: n = round((stop-start)/step)
\* values start + i*(stop-start)/n, i = 0..n-1 (numpy.linspace)
linrange(start, stop, step) ==
    IF step = 0 THEN [err |-> "ZeroDivisionError", ts |-> <<>>]
    ELSE LET n == RoundHalfEven(stop - start, step)
         IN  IF n < 0 THEN [err |-> "ValueError", ts |-> <<>>]
             ELSE [err |-> "none",
                   ts |-> [j \in 1..n |-> Rat(start * n + (j - 1) * (stop - start), n)]]

\* I(t) for the callable a namespace holds as I
SignalAt(d, sig, t) ==
    CASE IsIntegral(t) -> interpolate(d, sig, t[1])

UpdateNames == {"k1", "k2", "k3", "Gb", "Ib", "I", "dt"}
SlopeNames == {"k1", "k2", "k3", "Gb", "Ib", "I"}

\* a slip in RowLabel: the result written under t itself
RowLabelAtT(t, step) == t

\* the label run_simulation writes a step's result under: frame.row[t+dt]
RowLabel(t, step) == RatAdd(t, RatInt(step))

\* a slip in update_func: X is advanced before dGdt is computed from it
update_func_stale(d, state, t, env) ==
    LET G == state.G
        dXdt == env.k3 * (SignalAt(d, env.I, t) - env.Ib) - env.k2 * state.X
        X == state.X + dXdt * env.dt
        dGdt == (-env.k1) * (G - env.Gb) - X * G
    IN  State(G + dGdt * env.dt, X)

\* update_func(state, t, system), reading its names from the namespace env
\* that unpack(system) leaves
update_func(d, state, t, env) ==
    LET G == state.G
        X == state.X
        dGdt == (-env.k1) * (G - env.Gb) - X * G
        dXdt == env.k3 * (SignalAt(d, env.I, t) - env.Ib) - env.k2 * X
    IN  State(G + dGdt * env.dt, X + dXdt * env.dt)

\* a slip in slope_func: the basal insulin taken outside the k3 factor
slope_func_basal(d, state, t, env) ==
    LET G == state.G
        X == state.X
        dGdt == (-env.k1) * (G - env.Gb) - X * G
        dXdt == env.k3 * SignalAt(d, env.I, t) - env.Ib - env.k2 * X
    IN  <<dGdt, dXdt>>

\* slope_func(state, t, system): the derivatives <<dGdt, dXdt>>
slope_func(d, state, t, env) ==
    LET G == state.G
        X == state.X
        dGdt == (-env.k1) * (G - env.Gb) - X * G
        dXdt == env.k3 * (SignalAt(d, env.I, t) - env.Ib) - env.k2 * X
    IN  <<dGdt, dXdt>>

\* ------------------------------------------------- Series and TimeFrames
\* a Series value: a number, or NaN where an aligned operand has no row
NaN == [nan |-> TRUE, v |-> 0]
Num(x) == [nan |-> FALSE, v |-> x]

Range(f) == {f[x] : x \in DOMAIN f}

\* data.glucose: the measured column as a Series over data.index
Column(d, col) ==
    [t \in Range(d.index) |-> Num(d[col][CHOOSE j \in DOMAIN d.index : d.index[j] = t])]

\* results.G: one column of a TimeFrame (time -> State)
ColumnG(rows) == [t \in DOMAIN rows |-> Num(rows[t].G)]

\* a slip in SeriesSub: only the labels both sides hold are kept
SeriesSubInner(a, b) ==
    [t \in (DOMAIN a) \cap (DOMAIN b) |-> Num(a[t].v - b[t].v)]

\* a - b on two Series (pandas): aligned on the union of the two indexes,
\* NaN at a label either side lacks
SeriesSub(a, b) ==
    [t \in (DOMAIN a) \cup (DOMAIN b) |->
        IF t \in DOMAIN a /\ t \in DOMAIN b /\ ~a[t].nan /\ ~b[t].nan
        THEN Num(a[t].v - b[t].v)
        ELSE NaN]

\* ------------------------------------------------------- run_ode_solver
\* The external integrator (scipy's solve_ivp) as the interface describes it:
\* from y_0 at t_0 it advances along the evaluation times with the slope rule
\* (one explicit step per interval here) and returns one row per evaluation
\* time it reached; it failed iff it reached fewer than it was asked for.
RECURSIVE solve_ivp(_, _, _, _)
solve_ivp(d, env, teval, k) ==
    IF k = 0 THEN [t |-> env.t_0, y |-> env.init]
    ELSE LET prev == solve_ivp(d, env, teval, k - 1)
             h == teval[k] - prev.t
             dy == slope_func(d, prev.y, RatInt(prev.t), env)
         IN  [t |-> teval[k], y |-> State(prev.y.G + h * dy[1], prev.y.X + h * dy[2])]

\* scipy rejects evaluation times outside the span [t_0, t_end] or sorted
\* against its direction
SpanCovers(env, teval) ==
    /\ env.t_0 <= env.t_end
    /\ \A k \in DOMAIN teval : env.t_0 <= teval[k] /\ teval[k] <= env.t_end

\* run_ode_solver(system, slope_func, t_eval=teval) in namespace g, the
\* integrator reaching `reached` of the evaluation times:
\* unpack(system), solve, pack the rows into a TimeFrame, the flag into details
run_ode_solver(d, sys, g, teval, reached) ==
    LET env == unpack(sys, g)
    IN  IF ~Defined(env, SlopeNames) THEN
            [status |-> "NameError", results |-> <<>>, success |-> FALSE,
             calls |-> 1, globals |-> env]
        ELSE IF ~SpanCovers(env, teval) THEN
            [status |-> "ValueError", results |-> <<>>, success |-> FALSE,
             calls |-> 0, globals |-> env]
        ELSE
            [status |-> "returned",
             results |-> [t \in {teval[k] : k \in 1..reached} |->
                            solve_ivp(d, env, teval,
                                CHOOSE k \in 1..reached : teval[k] = t).y],
             success |-> (reached = Len(teval)),
             calls |-> reached,
             globals |-> env]

\* ------------------------------------------------ make_system, error_func
\* candidate ParameterVectors <<G0, k1, k2, k3>>
Candidates == {<<1, 0, 0, 0>>, <<1, 1, 1, 1>>, <<2, 0, 0, 0>>, <<2, 1, 1, 1>>}

\* make_system(params, data)
make_system(params, d) ==
    [G0 |-> params[1], k1 |-> params[2], k2 |-> params[3], k3 |-> params[4],
     init |-> State(params[1], 0),
     Gb |-> d.glucose[1], Ib |-> d.insulin[1],
     t_0 |-> get_first_label(d), t_end |-> get_last_label(d)]

\* a slip in error_func: a run the solver reports as failed is run again
\* until it succeeds
error_func_retry(params, d, g, reached) ==
    LET sys == make_system(params, d)
        run == run_ode_solver(d, sys, g, d.index, Len(d.index))
    IN  [status |-> run.status,
         errors |-> IF run.status = "returned"
                    THEN SeriesSub(ColumnG(run.results), Column(d, "glucose"))
                    ELSE <<>>,
         params |-> params, names |-> DOMAIN sys,
         success |-> (reached = Len(d.index)), reached |-> reached,
         calls |-> run.calls, globals |-> run.globals]

\* a slip in error_func: a run the solver reports as failed raises
error_func_strict(params, d, g, reached) ==
    LET sys == make_system(params, d)
        run == run_ode_solver(d, sys, g, d.index, reached)
    IN  IF run.status # "returned" \/ ~run.success THEN
            [status |-> "RuntimeError", errors |-> <<>>, params |-> params,
             names |-> DOMAIN sys, success |-> FALSE,
             reached |-> 0, calls |-> run.calls, globals |-> run.globals]
        ELSE
            [status |-> "returned",
             errors |-> SeriesSub(ColumnG(run.results), Column(d, "glucose")),
             params |-> params, names |-> DOMAIN sys,
             success |-> run.success, reached |-> reached,
             calls |-> run.calls, globals |-> run.globals]

\* error_func(params, data) in namespace g, its one solver run reaching
\* `reached` evaluation times: errors = results.G - data.glucose
error_func(params, d, g, reached) ==
    LET sys == make_system(params, d)
        run == run_ode_solver(d, sys, g, d.index, reached)
    IN  IF run.status # "returned" THEN
            [status |-> run.status, errors |-> <<>>, params |-> params,
             names |-> DOMAIN sys, success |-> FALSE,
             reached |-> 0, calls |-> run.calls, globals |-> run.globals]
        ELSE
            [status |-> "returned",
             errors |-> SeriesSub(ColumnG(run.results), Column(d, "glucose")),
             params |-> params, names |-> DOMAIN sys,
             success |-> run.success, reached |-> reached,
             calls |-> run.calls, globals |-> run.globals]

NoEval == [status |-> "none", errors |-> <<>>, params |-> <<>>, names |-> {},
           success |-> FALSE, reached |-> 0, calls |-> 0,
           globals |-> <<>>]

NoOde == [status |-> "none", results |-> <<>>, success |-> FALSE,
          calls |-> 0, globals |-> <<>>]

\* ---------------------------------------------------------------- state
VARIABLES
    data,      \* the observed table read in cell 2
    globals,   \* the notebook's global namespace: name -> value
    pc,        \* "idle", or the call in progress: "sim", "fit"
    op,        \* the function last called from a cell
    system,    \* the System of the call in progress or last made
    origin,    \* who built it: "caller" or "make_system"
    frame,     \* run_simulation's TimeFrame: time -> State
    ts,        \* run_simulation's linrange array
    i,         \* index into ts of the next loop iteration
    outcome,   \* how the last call ended: "none", "returned" or the exception
    calls,     \* times the update/slope rule was called in the last call
    rule,      \* the rule last called and the names its System held
    ode,       \* what the caller's last run_ode_solver call gave
    ev,        \* what the last error_func call gave
    fit        \* the fit_leastsq call: state, evaluations, candidate, result

vars == <<data, globals, pc, op, system, origin, frame, ts, i, outcome, calls, rule,
          ode, ev, fit>>

NoRule == [name |-> "none", names |-> {}, origin |-> "none"]

Terminal == {"Converged", "MaxEvaluationsReached", "StepUnderflow"}

NoResult == [best_params |-> <<>>, fit_details |-> [mesg |-> "none", nfev |-> 0]]

\* G0, k1, k2, k3 of cells 4 and 19 (all positive)
NotebookParams == <<2, 1, 1, 1>>

\* the namespace after cells 2-8: I = interpolate(data.insulin), G0, k1, k2,
\* k3, Gb, Ib, init, t_0, t_end (no global dt)
NotebookGlobals(d) ==
    LET p == NotebookParams
    IN  [G0 |-> p[1]] @@
        Without(System(d, State(p[1], 0), <<p[2], p[3], p[4]>>, "insulin",
                       get_first_label(d), get_last_label(d), 0), {"dt"})

Init ==
    /\ data \in DataTables
    /\ globals = NotebookGlobals(data)
    /\ pc = "idle"
    /\ op = "none"
    /\ system = <<>>
    /\ origin = "none"
    /\ frame = <<>>
    /\ ts = <<>>
    /\ i = 1
    /\ outcome = "none"
    /\ calls = 0
    /\ rule = NoRule
    /\ ode = NoOde
    /\ ev = NoEval
    /\ fit = [state |-> "Initialized", nfev |-> 0, cand |-> <<>>, sse |-> -1,
              result |-> NoResult]

\* --------------------------------------------------------- run_simulation
\* unpack(system); frame.row[t_0] = init; ts = linrange(t_0, t_end, dt)
SimStart(s) ==
    /\ pc = "idle"
    /\ fit.state = "Initialized"
    /\ LET env == unpack(s, globals)
           lr == linrange(env.t_0, env.t_end, env.dt)
       IN  /\ globals' = env
           /\ frame' = (RatInt(env.t_0) :> env.init)
           /\ IF ~Defined(env, {"dt"})
              THEN /\ outcome' = "NameError"
                   /\ pc' = "idle"
                   /\ ts' = <<>>
              ELSE IF lr.err # "none"
              THEN /\ outcome' = lr.err
                   /\ pc' = "idle"
                   /\ ts' = <<>>
              ELSE /\ outcome' = "none"
                   /\ pc' = "sim"
                   /\ ts' = lr.ts
    /\ op' = "run_simulation"
    /\ system' = s
    /\ origin' = "caller"
    /\ i' = 1
    /\ calls' = 0
    /\ rule' = NoRule
    /\ ode' = NoOde
    /\ ev' = NoEval
    /\ UNCHANGED <<data, fit>>

\* one iteration: frame.row[t+dt] = update_func(frame.row[t], t, system)
SimStep ==
    /\ pc = "sim"
    /\ i <= Len(ts)
    /\ LET t == ts[i]
           env == unpack(system, globals)
       IN  IF t \notin DOMAIN frame
           THEN /\ outcome' = "KeyError"
                /\ pc' = "idle"
                /\ UNCHANGED <<globals, frame, i, calls, rule>>
           ELSE /\ globals' = env
                /\ frame' = (RowLabel(t, env.dt) :> update_func(data, frame[t], t, env)) @@ frame
                /\ i' = i + 1
                /\ calls' = calls + 1
                /\ rule' = [name |-> "update_func", names |-> DOMAIN system, origin |-> origin]
                /\ UNCHANGED <<outcome, pc>>
    /\ UNCHANGED <<data, op, system, origin, ts, ode, ev, fit>>

\* return frame
SimReturn ==
    /\ pc = "sim"
    /\ i > Len(ts)
    /\ outcome' = "returned"
    /\ pc' = "idle"
    /\ UNCHANGED <<data, globals, op, system, origin, frame, ts, i, calls, rule,
                   ode, ev, fit>>

\* ------------------------------------------- the caller's run_ode_solver
\* results2, details = run_ode_solver(system, slope_func, t_eval=data.index)
RunOde(s, reached) ==
    /\ pc = "idle"
    /\ fit.state = "Initialized"
    /\ LET run == run_ode_solver(data, s, globals, data.index, reached)
       IN  /\ ode' = run
           /\ globals' = run.globals
           /\ outcome' = run.status
           /\ calls' = run.calls
           /\ rule' = IF run.calls > 0
                      THEN [name |-> "slope_func", names |-> DOMAIN s, origin |-> "caller"]
                      ELSE NoRule
    /\ op' = "run_ode_solver"
    /\ system' = s
    /\ origin' = "caller"
    /\ frame' = <<>>
    /\ ts' = <<>>
    /\ i' = 1
    /\ ev' = NoEval
    /\ UNCHANGED <<data, pc, fit>>

\* ---------------------------------------------------------- error_func
\* what one error_func(params, data) call leaves behind
Evaluated(e) ==
    /\ ev' = e
    /\ globals' = e.globals
    /\ system' = make_system(e.params, data)
    /\ origin' = "make_system"
    /\ calls' = e.calls
    /\ rule' = IF e.calls > 0
               THEN [name |-> "slope_func", names |-> e.names, origin |-> "make_system"]
               ELSE NoRule
    /\ frame' = <<>>
    /\ ts' = <<>>
    /\ i' = 1
    /\ ode' = NoOde

\* error_func(params, data) called from a cell
ErrorFunc(params, reached) ==
    /\ pc = "idle"
    /\ fit.state = "Initialized"
    /\ LET e == error_func(params, data, globals, reached)
       IN  /\ Evaluated(e)
           /\ outcome' = e.status
    /\ op' = "error_func"
    /\ UNCHANGED <<data, pc, fit>>

\* ------------------------------------------------------------ fit_leastsq
\* The external least-squares routine as the design describes it:
\* Initialized -> Evaluating <-> ProposingStep -> a terminal state.

\* sum of squared residuals; a residual vector holding NaN never improves
HasNaN(errors) == \E t \in DOMAIN errors : errors[t].nan

RECURSIVE SumSq(_, _)
SumSq(errors, times) ==
    IF times = {} THEN 0
    ELSE LET t == CHOOSE x \in times : TRUE
         IN  errors[t].v * errors[t].v + SumSq(errors, times \ {t})

\* best_params, fit_details = fit_leastsq(error_func, params, data), with
\* params the initial guess of cell 19
FitStart(x0) ==
    /\ pc = "idle"
    /\ fit.state = "Initialized"
    /\ pc' = "fit"
    /\ fit' = [state |-> "Evaluating", nfev |-> 0, cand |-> x0, sse |-> -1,
               result |-> [best_params |-> x0, fit_details |-> [mesg |-> "none", nfev |-> 0]]]
    /\ outcome' = "none"
    /\ op' = "fit_leastsq"
    /\ system' = <<>>
    /\ origin' = "none"
    /\ frame' = <<>>
    /\ ts' = <<>>
    /\ i' = 1
    /\ calls' = 0
    /\ rule' = NoRule
    /\ ode' = NoOde
    /\ ev' = NoEval
    /\ UNCHANGED <<data, globals>>

\* (1) evaluate the objective at the candidate
FitEvaluate(reached) ==
    /\ pc = "fit"
    /\ fit.state = "Evaluating"
    /\ LET e == error_func(fit.cand, data, globals, reached)
           better == /\ e.status = "returned"
                     /\ ~HasNaN(e.errors)
                     /\ \/ fit.sse < 0
                        \/ SumSq(e.errors, DOMAIN e.errors) < fit.sse
       IN  /\ Evaluated(e)
           /\ IF e.status # "returned"
              THEN /\ fit' = [fit EXCEPT !.state = "Raised", !.nfev = @ + 1]
                   /\ pc' = "idle"
                   /\ outcome' = e.status
              ELSE /\ fit' = [fit EXCEPT
                                !.state = "ProposingStep",
                                !.nfev = @ + 1,
                                !.sse = IF better THEN SumSq(e.errors, DOMAIN e.errors) ELSE @,
                                !.result.best_params = IF better THEN fit.cand ELSE @]
                   /\ pc' = "fit"
                   /\ outcome' = "none"
    /\ UNCHANGED <<data, op>>

\* (4) stop, reporting the terminal state with the best parameters
FitStop(why) ==
    /\ pc = "fit"
    /\ fit.state = "ProposingStep"
    /\ IF fit.nfev >= MaxEval THEN why = "MaxEvaluationsReached"
                              ELSE why \in {"Converged", "StepUnderflow"}
    /\ fit' = [fit EXCEPT !.state = why,
                          !.result.fit_details = [mesg |-> why, nfev |-> fit.nfev]]
    /\ pc' = "idle"
    /\ outcome' = "returned"
    /\ UNCHANGED <<data, globals, op, system, origin, frame, ts, i, calls, rule,
                   ode, ev>>

\* (2), (3) propose the next candidate
FitPropose(x) ==
    /\ pc = "fit"
    /\ fit.state = "ProposingStep"
    /\ fit.nfev < MaxEval
    /\ fit' = [fit EXCEPT !.state = "Evaluating", !.cand = x]
    /\ UNCHANGED <<data, globals, pc, op, system, origin, frame, ts, i, outcome,
                   calls, rule, ode, ev>>

\* after the fit: system = make_system(best_params, data);
\* results, details = run_ode_solver(system, slope_func, t_eval=data.index)
FinalRun(reached) ==
    /\ pc = "idle"
    /\ fit.state \in Terminal
    /\ LET s == make_system(fit.result.best_params, data)
           run == run_ode_solver(data, s, globals, data.index, reached)
       IN  /\ ode' = run
           /\ globals' = run.globals
           /\ outcome' = run.status
           /\ calls' = run.calls
           /\ rule' = IF run.calls > 0
                      THEN [name |-> "slope_func", names |-> DOMAIN s, origin |-> "make_system"]
                      ELSE NoRule
           /\ system' = s
    /\ op' = "run_ode_solver"
    /\ origin' = "make_system"
    /\ frame' = <<>>
    /\ ts' = <<>>
    /\ i' = 1
    /\ ev' = NoEval
    /\ UNCHANGED <<data, pc, fit>>

Reaches == 0..Len(data.index)

Next ==
    \/ \E s \in SimSystems(data) : SimStart(s)
    \/ SimStep
    \/ SimReturn
    \/ \E s \in OdeSystems(data), reached \in Reaches : RunOde(s, reached)
    \/ \E p \in Candidates, reached \in Reaches : ErrorFunc(p, reached)
    \/ FitStart(NotebookParams)
    \/ \E reached \in Reaches : FitEvaluate(reached)
    \/ \E why \in Terminal : FitStop(why)
    \/ \E x \in Candidates : FitPropose(x)
    \/ \E reached \in Reaches : FinalRun(reached)

Spec == Init /\ [][Next]_vars

\* the fit, once called, runs on: the notebook is single-threaded, and the
\* external routine takes its next step whenever it has one
FitNext ==
    \/ \E reached \in Reaches : FitEvaluate(reached)
    \/ \E why \in Terminal : FitStop(why)
    \/ \E x \in Candidates : FitPropose(x)

\* the session without run_simulation: the continuous path and the fit
FitSessionNext ==
    \/ \E s \in OdeSystems(data), reached \in Reaches : RunOde(s, reached)
    \/ \E p \in Candidates, reached \in Reaches : ErrorFunc(p, reached)
    \/ FitStart(NotebookParams)
    \/ FitNext
    \/ \E reached \in Reaches : FinalRun(reached)

FitSpec == Init /\ [][FitSessionNext]_vars /\ WF_vars(FitNext)

\* ================================================================ claims
SimCall == op = "run_simulation"
SimReturned == SimCall /\ pc = "idle" /\ outcome = "returned"
Complete(s) == Defined(s, UpdateNames \cup {"init", "t_0", "t_end"})

\* t_end - t_0 = n*dt for an integer n >= 0, with dt > 0
ExactSpan(s) ==
    /\ Complete(s)
    /\ s.dt > 0
    /\ s.t_end >= s.t_0
    /\ (s.t_end - s.t_0) % s.dt = 0

C2_NeverPastTheEnd ==
    (SimCall /\ Complete(system) /\ system.t_0 <= system.t_end /\ system.dt > 0
       /\ (system.t_end - system.t_0) % system.dt # 0) =>
        \A t \in DOMAIN frame : RatLe(t, RatInt(system.t_end))

\* the Euler step update_func is to take from row `state` at integral time t,
\* written out over the namespace the System was unpacked into
EulerStep(state, t, env) ==
    State(state.G + ((-env.k1) * (state.G - env.Gb) - state.X * state.G) * env.dt,
          state.X + (env.k3 * (interpolate(data, env.I, t[1]) - env.Ib)
                       - env.k2 * state.X) * env.dt)

\* C9: in a returned TimeFrame the row at t_0 is init and the row at t+dt is
\* the Euler step from the row at t (both derivatives from the pre-step
\* state); and while a run is in progress no recorded row changes.
C9_RowsAreEulerSteps ==
    /\ [](SimReturned =>
            /\ frame[RatInt(globals.t_0)] = globals.init
            /\ \A j \in DOMAIN ts :
                 /\ ts[j] \in DOMAIN frame
                 /\ RatAdd(ts[j], RatInt(globals.dt)) \in DOMAIN frame
                 /\ frame[RatAdd(ts[j], RatInt(globals.dt))]
                      = EulerStep(frame[ts[j]], ts[j], globals))
    /\ [][pc = "sim" =>
            \A t \in DOMAIN frame : t \in DOMAIN frame' /\ frame'[t] = frame[t]]_vars

\* C9's case: a returned run of two or more steps in which X left zero
C9_Witness ==
    /\ SimReturned
    /\ calls >= 2
    /\ \E t \in DOMAIN frame : frame[t].X # 0 /\ frame[t].G # system.init.G

\* C3: whatever the solver reports, error_func returns, and the residuals
\* it returns are indexed by exactly the observed times, one per observed point.
C3_ResidualsOnDataIndex ==
    (ev.status # "none") =>
        /\ ev.status = "returned"
        /\ DOMAIN ev.errors = Range(data.index)
        /\ Cardinality(DOMAIN ev.errors) = Len(data.index)

\* C3's case: an evaluation whose solver run failed after one observed time
C3_Witness ==
    /\ ev.status = "returned"
    /\ ~ev.success
    /\ ev.reached = 1
    /\ DOMAIN ev.errors = Range(data.index)

OdeReturned == op = "run_ode_solver" /\ ode.status = "returned"
ZeroRates(s) == s.k1 = 0 /\ s.k2 = 0 /\ s.k3 = 0

\* C4: (as claimed) with k1 = k2 = k3 = 0, from every initial state (G, X), every
\* row the continuous simulator returns equals the initial state.
C4_NoDriftFromAnyState ==
    (OdeReturned /\ ZeroRates(system)) =>
        \A t \in DOMAIN ode.results : ode.results[t] = system.init

\* C4: (amended) with k1 = k2 = k3 = 0 and an initial state with X = 0, every row
\* returned equals the initial state and slope_func is <<0, 0>> at every row.
C4_NoDriftFromRest ==
    (OdeReturned /\ ZeroRates(system) /\ system.init.X = 0) =>
        \A t \in DOMAIN ode.results :
            /\ ode.results[t] = system.init
            /\ slope_func(data, ode.results[t], RatInt(t), globals) = <<0, 0>>

\* C4's case: a complete run with zero rates from a state with X = 0
C4_Witness ==
    /\ OdeReturned
    /\ ZeroRates(system)
    /\ system.init.X = 0
    /\ ode.success
    /\ DOMAIN ode.results = Range(data.index)

\* a System run_simulation should refuse: the span reversed, the step not
\* positive, or the step missing
Malformed(s) ==
    \/ ~Defined(s, {"dt"})
    \/ s.dt <= 0
    \/ s.t_0 > s.t_end

\* C5: run_simulation given a malformed System calls the update rule not
\* once and returns no Trajectory.
C5_MalformedRejected ==
    (SimCall /\ Malformed(system)) =>
        /\ calls = 0
        /\ outcome # "returned"

\* C6: a System built by make_system that reaches slope_func holds every
\* name slope_func reads: k1, k2, k3, Gb, Ib and I.
C6_RuleNamesPresent ==
    (rule.name = "slope_func" /\ rule.origin = "make_system") =>
        SlopeNames \subseteq rule.names

FitRunning == fit.state \in {"Evaluating", "ProposingStep"}

\* C7: a fit that has started alternates Evaluating and ProposingStep and
\* reaches a terminal state; a terminal fit stays as it is; and a terminal
\* fit has handed back best parameters and details naming the terminal state.
C7_FitEndsOnce ==
    /\ FitRunning ~> (fit.state \in Terminal)
    /\ [][(fit.state = "Evaluating" /\ fit'.state # "Evaluating")
             => fit'.state = "ProposingStep"]_vars
    /\ [][(fit.state = "ProposingStep" /\ fit'.state # "ProposingStep")
             => fit'.state \in Terminal \cup {"Evaluating"}]_vars
    /\ [][fit.state \in Terminal => fit' = fit]_vars
    /\ [](fit.state \in Terminal =>
            /\ fit.result.best_params \in Candidates
            /\ fit.result.fit_details.mesg = fit.state
            /\ fit.result.fit_details.nfev = fit.nfev
            /\ pc = "idle")

\* C7's case: a fit that ended on the evaluation limit, and a later cell ran
C7_Witness ==
    /\ fit.state = "MaxEvaluationsReached"
    /\ fit.nfev = MaxEval
    /\ op = "run_ode_solver"

\* the state the solver held at the k-th observed time of the last evaluation
DegradedRow(k) ==
    solve_ivp(data, unpack(make_system(ev.params, data), globals), data.index, k).y

\* C8: an evaluation whose solver run failed still returns: the residual at
\* each time the solver reached is its G there minus the observed glucose,
\* and the times it did not reach are NaN, so the failure shows.
C8_FailedRunReturned ==
    (ev.status # "none" /\ ~ev.success) =>
        /\ ev.status = "returned"
        /\ ev.reached < Len(data.index)
        /\ \A k \in DOMAIN data.index :
             ev.errors[data.index[k]] =
                IF k <= ev.reached
                THEN Num(DegradedRow(k).G - data.glucose[k])
                ELSE NaN
        /\ HasNaN(ev.errors)

\* C8's case: inside a fit, a failed run that reached two observed times
C8_Witness ==
    /\ pc = "fit"
    /\ ev.status = "returned"
    /\ ~ev.success
    /\ ev.reached = 2
    /\ ~ev.errors[data.index[2]].nan

\* C10: the residuals of an evaluation are those the same candidate gives in
\* the notebook's fresh namespace, whatever was run before it.
C10_HistoryFree ==
    (ev.status = "returned") =>
        ev.errors = error_func(ev.params, data, NotebookGlobals(data), ev.reached).errors

====
